---- MODULE Spec2Model ----
(***************************************************************************)
(* Webhook verification and dispatch of recurrente-js                      *)
(* (src/src/api/recurrente-webhooks.ts) with the case converter it uses.   *)
(*                                                                         *)
(* Representation.  A JavaScript value is a tagged record:                 *)
(*   [t |-> "str", e |-> s]      a string leaf                             *)
(*   [t |-> "obj", e |-> es]     an object; es is the sequence of its own  *)
(*                               properties [k |-> key, v |-> value] in    *)
(*                               Object.keys order                         *)
(*   [t |-> "arr", e |-> vs]     an array                                  *)
(*   [t |-> "undefined", e |-> <<>>]                                       *)
(* A property key is the sequence of its characters, because the converter *)
(* rewrites keys character by character.                                   *)
(***************************************************************************)
EXTENDS Integers, Sequences, FiniteSets

VARIABLES
    userHandlers,   \* own properties of the module-level handler record
    env,            \* process.env: the variables that hold a signing secret
    registered,     \* history: per event type, the handlers given to registerWebhookHandler, oldest first
    nRegistered,    \* history: number of registerWebhookHandler calls so far
    last,           \* observation of the latest call: its arguments and its outcome
    running,        \* the handleWebhookEvent call in progress: the handler calls it is in
    conv,           \* a value and the converter calls applied to it, with each result
    api             \* observation of the latest resource operation: its requests and outcome

vars == <<userHandlers, env, registered, nRegistered, last, running, conv, api>>

----------------------------------------------------------------------------
(* Bounds of the model *)

\* registerWebhookHandler calls explored in one behaviour
MaxRegistrations == 2

\* Date.now() in seconds at the time of a verification
Now == 1000

\* length of the property keys given to the converters
MaxKeyLen == 3

\* converter calls applied in a row to one value
MaxConversions == 2

----------------------------------------------------------------------------
(* JavaScript values *)

Undefined == [t |-> "undefined", e |-> <<>>]

Str(s) == [t |-> "str", e |-> s]

Num(n) == [t |-> "num", e |-> n]

Bool(b) == [t |-> "bool", e |-> b]

Null == [t |-> "null", e |-> <<>>]

Obj(es) == [t |-> "obj", e |-> es]

Arr(vs) == [t |-> "arr", e |-> vs]

Prop(k, v) == [k |-> k, v |-> v]

\* obj[key] over the own properties of an object value
Get(obj, key) ==
    IF obj.t = "obj" /\ \E i \in 1..Len(obj.e) : obj.e[i].k = key
    THEN obj.e[CHOOSE i \in 1..Len(obj.e) : obj.e[i].k = key].v
    ELSE Undefined

\* the key of the prototype accessor that {} inherits from Object.prototype
ProtoKey == <<"_", "_", "p", "r", "o", "t", "o", "_", "_">>

\* acc[key] = value on a sequence of own properties: an existing key keeps its
\* position and takes the new value, a new key is appended; an assignment to
\* __proto__ goes to the inherited setter and adds no own property
Put(es, key, value) ==
    IF key = ProtoKey THEN es
    ELSE IF \E i \in 1..Len(es) : es[i].k = key
    THEN [i \in 1..Len(es) |-> IF es[i].k = key THEN Prop(key, value) ELSE es[i]]
    ELSE Append(es, Prop(key, value))

----------------------------------------------------------------------------
(* Characters *)

Lowers == <<"a","b","c","d","e","f","g","h","i","j","k","l","m",
            "n","o","p","q","r","s","t","u","v","w","x","y","z">>

Uppers == <<"A","B","C","D","E","F","G","H","I","J","K","L","M",
            "N","O","P","Q","R","S","T","U","V","W","X","Y","Z">>

IsLower(c) == \E i \in 1..Len(Lowers) : Lowers[i] = c

IsUpper(c) == \E i \in 1..Len(Uppers) : Uppers[i] = c

\* String.prototype.toUpperCase on one character
ToUpper(c) == IF IsLower(c) THEN Uppers[CHOOSE i \in 1..Len(Lowers) : Lowers[i] = c] ELSE c

IsDigit(c) == c \in {"0", "1", "2", "3", "4", "5", "6", "7", "8", "9"}

\* String.prototype.toLowerCase on one character: it lowers the capitals of
\* every script, [A-Z] and the others (here \u00c9)
ToLower(c) ==
    IF IsUpper(c) THEN Lowers[CHOOSE i \in 1..Len(Uppers) : Uppers[i] = c]
    ELSE IF c = "É" THEN "é"
    ELSE c

----------------------------------------------------------------------------
(* Case converter *)

\* key.replace(/_(.)/g, ...): whatever follows an underscore is taken with it
RECURSIVE camelKey_AnyCharacter(_)
camelKey_AnyCharacter(key) ==
    IF key = <<>> THEN <<>>
    ELSE IF Len(key) >= 2 /\ key[1] = "_"
         THEN <<ToUpper(key[2])>> \o camelKey_AnyCharacter(SubSeq(key, 3, Len(key)))
         ELSE <<key[1]>> \o camelKey_AnyCharacter(Tail(key))

\* key.replace(/_([a-z])/g, (match, letter) => '_' + letter.toUpperCase()): the
\* underscore stays in front of the capital
RECURSIVE camelKey_KeepsUnderscore(_)
camelKey_KeepsUnderscore(key) ==
    IF key = <<>> THEN <<>>
    ELSE IF Len(key) >= 2 /\ key[1] = "_" /\ IsLower(key[2])
         THEN <<"_", ToUpper(key[2])>> \o camelKey_KeepsUnderscore(SubSeq(key, 3, Len(key)))
         ELSE <<key[1]>> \o camelKey_KeepsUnderscore(Tail(key))

\* key.replace(/_([a-z])/g, (match, letter) => letter.toUpperCase())
RECURSIVE camelKey(_)
camelKey(key) ==
    IF key = <<>> THEN <<>>
    ELSE IF Len(key) >= 2 /\ key[1] = "_" /\ IsLower(key[2])
         THEN <<ToUpper(key[2])>> \o camelKey(SubSeq(key, 3, Len(key)))
         ELSE <<key[1]>> \o camelKey(Tail(key))

\* key.toLowerCase() alone: no underscore marks where a capital was
RECURSIVE snakeKey_LowerOnly(_)
snakeKey_LowerOnly(key) ==
    IF key = <<>> THEN <<>>
    ELSE <<ToLower(key[1])>> \o snakeKey_LowerOnly(Tail(key))

\* key.replace(/([A-Z])/g, '_$1').toLowerCase()
RECURSIVE snakeKey(_)
snakeKey(key) ==
    IF key = <<>> THEN <<>>
    ELSE (IF IsUpper(key[1]) THEN <<"_", ToLower(key[1])>> ELSE <<ToLower(key[1])>>)
         \o snakeKey(Tail(key))

RECURSIVE toCamelCase(_)
RECURSIVE camelEntries(_, _)
\* Object.keys(data).reduce((acc, key) => { acc[camelKey] = toCamelCase(data[key]); return acc }, {})
camelEntries(es, acc) ==
    IF es = <<>> THEN acc
    ELSE camelEntries(Tail(es), Put(acc, camelKey(es[1].k), toCamelCase(es[1].v)))

toCamelCase(data) ==
    IF data.t = "arr" THEN Arr([i \in 1..Len(data.e) |-> toCamelCase(data.e[i])])
    ELSE IF data.t = "obj" THEN Obj(camelEntries(data.e, <<>>))
    ELSE data

RECURSIVE toSnakeCase(_)
RECURSIVE snakeEntries(_, _)
\* Object.keys(obj).reduce((result, key) => { result[snakeKey] = toSnakeCase(obj[key]); return result }, {})
snakeEntries(es, acc) ==
    IF es = <<>> THEN acc
    ELSE snakeEntries(Tail(es), Put(acc, snakeKey(es[1].k), toSnakeCase(es[1].v)))

toSnakeCase(obj) ==
    IF obj.t = "arr" THEN Arr([i \in 1..Len(obj.e) |-> toSnakeCase(obj.e[i])])
    ELSE IF obj.t = "obj" THEN Obj(snakeEntries(obj.e, <<>>))
    ELSE obj

----------------------------------------------------------------------------
(* Event taxonomy and handlers *)

\* keyof EventTypeMapping
EventTypes == {"payment_intent.succeeded", "payment_intent.failed",
               "subscription.create", "subscription.past_due",
               "subscription.paused", "subscription.cancel"}

\* the logging handler the module installs for an event type
DefaultHandler(t) == [kind |-> "default", name |-> t]

\* a handler function supplied by the application
UserHandler(h) == [kind |-> "user", name |-> h]

\* a function inherited from Object.prototype
BuiltinFunction(n) == [kind |-> "builtin", name |-> n]

NoHandler == [kind |-> "undefined", name |-> "undefined"]

\* handler functions the application registers
UserHandlers == {UserHandler("h1"), UserHandler("h2")}

\* userHandlers created empty
InitialUserHandlers_Empty == [t \in {} |-> NoHandler]

\* userHandlers created without the default handler of subscription.paused
InitialUserHandlers_NoPausedDefault ==
    [t \in EventTypes \ {"subscription.paused"} |-> DefaultHandler(t)]

\* userHandlers as the module creates it
InitialUserHandlers == [t \in EventTypes |-> DefaultHandler(t)]

\* Properties every object literal inherits from Object.prototype, with what a
\* call f(event) of the inherited value does.  userHandlers is an object
\* literal, so userHandlers[k] finds these when k is no own property.
ObjectPrototype ==
    [constructor |-> [value |-> BuiltinFunction("Object"), call |-> "returns"],
     hasOwnProperty |-> [value |-> BuiltinFunction("hasOwnProperty"), call |-> "TypeError"]]

\* userHandlers[key]: own property first, then the prototype chain
Lookup(handlers, key) ==
    IF key \in DOMAIN handlers THEN handlers[key]
    ELSE IF key \in DOMAIN ObjectPrototype THEN ObjectPrototype[key].value
    ELSE NoHandler

\* `${event.eventType}` and the property key event.eventType is coerced to
StringOf(v) == IF v.t = "str" THEN v.e ELSE "undefined"

eventTypeKey == <<"e","v","e","n","t","T","y","p","e">>

event_type_key == <<"e","v","e","n","t","_","t","y","p","e">>

customer_id_key == <<"c","u","s","t","o","m","e","r","_","i","d">>

customerIdKey == <<"c","u","s","t","o","m","e","r","I","d">>

----------------------------------------------------------------------------
(* Errors *)

Error(message) == [name |-> "Error", message |-> message]

TypeError(message) == [name |-> "TypeError", message |-> message]

NoError == [name |-> "none", message |-> <<>>]

MissingSigningSecret == Error(<<"Missing signing secret">>)

InvalidWebhookSignature == Error(<<"Invalid webhook signature">>)

\* `No handler registered for event type: ${event.eventType}`
NoHandlerRegistered(eventType) ==
    Error(<<"No handler registered for event type: ", StringOf(eventType)>>)

----------------------------------------------------------------------------
(* Dispatcher *)

\* registerWebhookHandler keeping the first application handler of an event type
registerWebhookHandler_FirstWins(handlers, eventType, handler) ==
    IF eventType \in DOMAIN handlers /\ handlers[eventType].kind = "user"
    THEN handlers
    ELSE [k \in DOMAIN handlers \cup {eventType} |->
            IF k = eventType THEN handler ELSE handlers[k]]

\* registerWebhookHandler that puts the default handler back when the event type
\* already has an application handler
registerWebhookHandler_SecondResets(handlers, eventType, handler) ==
    [k \in DOMAIN handlers \cup {eventType} |->
        IF k # eventType THEN handlers[k]
        ELSE IF eventType \in DOMAIN handlers /\ handlers[eventType].kind = "user"
             THEN DefaultHandler(eventType)
             ELSE handler]

\* userHandlers = {[eventType]: handler}: a new object with the one entry
registerWebhookHandler_FreshObject(handlers, eventType, handler) ==
    [k \in {eventType} |-> handler]

\* registerWebhookHandler that gives the handler to every event type
registerWebhookHandler_EveryType(handlers, eventType, handler) ==
    [k \in DOMAIN handlers \cup {eventType} |-> handler]

\* userHandlers[eventType] = handler
registerWebhookHandler(handlers, eventType, handler) ==
    [k \in DOMAIN handlers \cup {eventType} |->
        IF k = eventType THEN handler ELSE handlers[k]]

\* what an application handler may throw
HandlerFaults == {Error(<<"order not found">>), TypeError(<<"customer is undefined">>)}

\* what the call handler(event) throws, NoError when it returns: a default
\* handler logs and returns, an application handler returns or throws `fault`
RunHandler(handler, fault) ==
    IF handler.kind = "builtin"
    THEN (IF \E k \in DOMAIN ObjectPrototype :
                 ObjectPrototype[k].value = handler /\ ObjectPrototype[k].call = "returns"
          THEN NoError
          ELSE TypeError(<<"Cannot convert undefined or null to object">>))
    ELSE IF handler.kind = "user" THEN fault
    ELSE NoError

\* handler(event) inside a try block that discards what the handler throws
Uncaught_Swallowed(fault) == NoError

\* handler(event) is called outside any try block: what it throws leaves
\* handleWebhookEvent unchanged
Uncaught(fault) == fault

\* handleWebhookEvent that goes on to the default handler of the event type
handleWebhookEvent_AlsoDefault(handlers, event) ==
    LET handler == Lookup(handlers, StringOf(Get(event, eventTypeKey)))
    IN  IF handler.kind # "undefined"
        THEN [calls |-> <<[handler |-> handler, arg |-> event],
                          [handler |-> DefaultHandler(StringOf(Get(event, eventTypeKey))),
                           arg |-> event]>>,
              error |-> NoError]
        ELSE [calls |-> <<>>,
              error |-> NoHandlerRegistered(Get(event, eventTypeKey))]

\* handleWebhookEvent(event): the handler calls it makes, and the error it
\* throws without calling anything
handleWebhookEvent(handlers, event) ==
    LET handler == Lookup(handlers, StringOf(Get(event, eventTypeKey)))
    IN  IF handler.kind # "undefined"
        THEN [calls |-> <<[handler |-> handler, arg |-> event]>>,
              error |-> NoError]
        ELSE [calls |-> <<>>,
              error |-> NoHandlerRegistered(Get(event, eventTypeKey))]

----------------------------------------------------------------------------
(* Resource operations *)

statusKey == <<"s", "t", "a", "t", "u", "s">>

messageKey == <<"m", "e", "s", "s", "a", "g", "e">>

errorsKey == <<"e", "r", "r", "o", "r", "s">>

responseKey == <<"r", "e", "s", "p", "o", "n", "s", "e">>

dataKey == <<"d", "a", "t", "a">>

isAxiosErrorKey == <<"i", "s", "A", "x", "i", "o", "s", "E", "r", "r", "o", "r">>

nameKey == <<"n", "a", "m", "e">>

idKey == <<"i", "d">>

pricesAttributesKey == <<"p", "r", "i", "c", "e", "s", "A", "t", "t", "r", "i", "b", "u", "t", "e", "s">>

chargeTypeKey == <<"c", "h", "a", "r", "g", "e", "T", "y", "p", "e">>

amountInCentsKey == <<"a", "m", "o", "u", "n", "t", "I", "n", "C", "e", "n", "t", "s">>

successUrlKey == <<"s", "u", "c", "c", "e", "s", "s", "U", "r", "l">>

pricesKey == <<"p", "r", "i", "c", "e", "s">>

charge_type_key == <<"c", "h", "a", "r", "g", "e", "_", "t", "y", "p", "e">>

amount_in_cents_key == <<"a", "m", "o", "u", "n", "t", "_", "i", "n", "_", "c", "e", "n", "t", "s">>

productKey == <<"p", "r", "o", "d", "u", "c", "t">>

\* ToBoolean(v): undefined, null, '', 0 and false are falsy
Truthy(v) ==
    CASE v.t = "undefined" -> FALSE
      [] v.t = "null" -> FALSE
      [] v.t = "str" -> v.e # ""
      [] v.t = "num" -> v.e # 0
      [] v.t = "bool" -> v.e
      [] OTHER -> TRUE

\* a || b
OrElse(a, b) == IF Truthy(a) THEN a ELSE b

\* the response object axios builds: its status and the parsed body
Response(status, data) == Obj(<<Prop(statusKey, Num(status)), Prop(dataKey, data)>>)

\* the error axios rejects with; response is undefined when none was received
AxiosError(message, response) ==
    Obj(<<Prop(isAxiosErrorKey, Bool(TRUE)), Prop(messageKey, Str(message)),
          Prop(responseKey, response)>>)

\* axios.isAxiosError(error)
isAxiosError(error) == error.t = "obj" /\ Get(error, isAxiosErrorKey).t = "bool"
                       /\ Get(error, isAxiosErrorKey).e

\* the catch block throws what it caught
handleAxiosError_Rethrows(error) == error

\* handleAxiosError(error): the ErrorResponse the operations throw
handleAxiosError(error) ==
    IF isAxiosError(error)
    THEN IF Truthy(Get(error, responseKey)) /\ Truthy(Get(Get(error, responseKey), dataKey))
         THEN LET data == Get(Get(error, responseKey), dataKey)
              IN  Obj(<<Prop(statusKey, Str("error")),
                        Prop(messageKey, OrElse(Get(data, messageKey), Str("An error occurred"))),
                        Prop(errorsKey, OrElse(Get(data, errorsKey), Obj(<<>>)))>>)
         ELSE Obj(<<Prop(statusKey, Str("error")),
                    Prop(messageKey, OrElse(Get(error, messageKey),
                                            Str("Unknown Axios error occurred")))>>)
    ELSE Obj(<<Prop(statusKey, Str("error")),
               Prop(messageKey, Str("An unknown error occurred"))>>)

\* how the transport settles a request: it resolves with a response or rejects
\* with an error
Resolves(response) == [resolved |-> TRUE, response |-> response, error |-> Undefined]

Rejects(error) == [resolved |-> FALSE, response |-> Undefined, error |-> error]

\* a rejected request is sent once more before the catch block throws
Settle_RetriesOnce(request, outcome, value) ==
    IF outcome.resolved
    THEN [requests |-> <<request>>, returned |-> TRUE, value |-> value, thrown |-> Undefined]
    ELSE [requests |-> <<request, request>>, returned |-> FALSE, value |-> Undefined,
          thrown |-> handleAxiosError(outcome.error)]

\* one request to the transport client, then the try block's return or the
\* catch block's throw
Settle(request, outcome, value) ==
    IF outcome.resolved
    THEN [requests |-> <<request>>, returned |-> TRUE, value |-> value, thrown |-> Undefined]
    ELSE [requests |-> <<request>>, returned |-> FALSE, value |-> Undefined,
          thrown |-> handleAxiosError(outcome.error)]

createProduct(productData, outcome) ==
    Settle([method |-> "post", url |-> <<"/products/">>, body |-> toSnakeCase(productData)],
           outcome, toCamelCase(Get(outcome.response, dataKey)))

getProduct(productId, outcome) ==
    Settle([method |-> "get", url |-> <<"/products/", productId>>, body |-> Undefined],
           outcome, toCamelCase(Get(outcome.response, dataKey)))

getAllProducts(page, outcome) ==
    Settle([method |-> "get", url |-> <<"/products?page=", page>>, body |-> Undefined],
           outcome, toCamelCase(Get(outcome.response, dataKey)))

\* updateProduct that hands the caller's data to the transport as it is
updateProduct_RawBody(productId, productData, outcome) ==
    Settle([method |-> "patch", url |-> <<"/products/", productId>>, body |-> productData],
           outcome, toCamelCase(Get(outcome.response, dataKey)))

updateProduct(productId, productData, outcome) ==
    Settle([method |-> "patch", url |-> <<"/products/", productId>>,
            body |-> toSnakeCase(productData)],
           outcome, toCamelCase(Get(outcome.response, dataKey)))

createSubscription(productData, outcome) ==
    Settle([method |-> "post", url |-> <<"/products/">>, body |-> toSnakeCase(productData)],
           outcome, toCamelCase(Get(outcome.response, dataKey)))

\* `Subscription canceled successfully. Status: ${response.status}`
CanceledMessage(status) ==
    IF status = Num(204) THEN "Subscription canceled successfully. Status: 204"
    ELSE "Subscription canceled successfully. Status: 200"

cancelSubscription(subscriptionId, outcome) ==
    Settle([method |-> "delete", url |-> <<"/subscriptions/", subscriptionId>>,
            body |-> Undefined],
           outcome,
           Obj(<<Prop(messageKey, Str(CanceledMessage(Get(outcome.response, statusKey))))>>))

deleteProduct(productId, outcome) ==
    Settle([method |-> "delete", url |-> <<"/products/", productId>>, body |-> Undefined],
           outcome, Obj(<<Prop(messageKey, Str("Product deleted successfully"))>>))

getSubscription(subscriptionId, outcome) ==
    Settle([method |-> "get", url |-> <<"/subscriptions/", subscriptionId>>,
            body |-> Undefined],
           outcome, toCamelCase(Get(outcome.response, dataKey)))

----------------------------------------------------------------------------
(* Webhook requests *)

\* the raw request bodies explored
PayloadCancel == "{\"event_type\":\"subscription.cancel\",\"customer_id\":\"cus_1\"}"

\* PayloadCancel with one byte changed
PayloadCancelMutated == "{\"event_type\":\"subscription.cancel\",\"customer_id\":\"cus_2\"}"

PayloadSucceeded == "{\"event_type\":\"payment_intent.succeeded\"}"

\* an event type outside the taxonomy
PayloadUnknownType == "{\"event_type\":\"invoice.paid\"}"

\* an event type that names a property of Object.prototype
PayloadConstructor == "{\"event_type\":\"constructor\"}"

\* both spellings of the discriminant
PayloadBothKeys == "{\"event_type\":\"subscription.cancel\",\"eventType\":\"payment_intent.failed\"}"

\* PayloadCancel cut short: not JSON
PayloadTruncated == "{\"event_type\":\"subscription.cancel\""

Payloads == {PayloadCancel, PayloadCancelMutated, PayloadSucceeded, PayloadUnknownType,
             PayloadConstructor, PayloadBothKeys, PayloadTruncated}

SyntaxError == [name |-> "SyntaxError", message |-> <<"Unexpected end of JSON input">>]

\* JSON.parse(text) on the bodies above
JSON_parse(text) ==
    CASE text = PayloadCancel ->
            [error |-> NoError,
             value |-> Obj(<<Prop(event_type_key, Str("subscription.cancel")),
                             Prop(customer_id_key, Str("cus_1"))>>)]
      [] text = PayloadCancelMutated ->
            [error |-> NoError,
             value |-> Obj(<<Prop(event_type_key, Str("subscription.cancel")),
                             Prop(customer_id_key, Str("cus_2"))>>)]
      [] text = PayloadSucceeded ->
            [error |-> NoError,
             value |-> Obj(<<Prop(event_type_key, Str("payment_intent.succeeded"))>>)]
      [] text = PayloadUnknownType ->
            [error |-> NoError,
             value |-> Obj(<<Prop(event_type_key, Str("invoice.paid"))>>)]
      [] text = PayloadConstructor ->
            [error |-> NoError,
             value |-> Obj(<<Prop(event_type_key, Str("constructor"))>>)]
      [] text = PayloadBothKeys ->
            [error |-> NoError,
             value |-> Obj(<<Prop(event_type_key, Str("subscription.cancel")),
                             Prop(eventTypeKey, Str("payment_intent.failed"))>>)]
      [] OTHER -> [error |-> SyntaxError, value |-> Undefined]

\* a header or environment value: <<>> when undefined, <<x>> when set to x
Absent == <<>>

Some(x) == <<x>>

\* the text of a svix-timestamp header: decimal digits of n, or no number at all
TimestampText(n) == [digits |-> TRUE, n |-> n]

NotANumber == [digits |-> FALSE, n |-> 0]

\* HMAC-SHA256 under `key` of `${msgId}.${timestamp}.${payload}`, as a term:
\* two signatures are equal exactly when key and signed content are equal
Hmac(key, msgId, timestamp, payload) ==
    [key |-> key, msgId |-> msgId, timestamp |-> timestamp, payload |-> payload]

\* one space-separated element "version,signature" of a svix-signature header
Versioned(version, mac) == [version |-> version, mac |-> mac]

\* WEBHOOK_TOLERANCE_IN_SECONDS of the svix package
WEBHOOK_TOLERANCE_IN_SECONDS == 5 * 60

----------------------------------------------------------------------------
(* Webhook verifier *)

WebhookVerificationError(message) ==
    [name |-> "WebhookVerificationError", message |-> <<message>>]

\* new Webhook(secret).verify(payload, headers) of the svix dependency
\* (package.json: svix ^1.34.0), as that package documents and implements it:
\* required headers, timestamp within tolerance of the clock, one "v1"
\* signature equal to the expected one, then JSON.parse of the payload.
SvixVerify(secret, payload, headers) ==
    IF headers.signature = Absent \/ headers.id = Absent \/ headers.timestamp = Absent
    THEN [error |-> WebhookVerificationError("Missing required headers"), value |-> Undefined]
    ELSE LET msgId == headers.id[1]
             text == headers.timestamp[1]
             passedSignatures == headers.signature[1]
         IN  IF ~text.digits
             THEN [error |-> WebhookVerificationError("Invalid Signature Headers"),
                   value |-> Undefined]
             ELSE IF Now - text.n > WEBHOOK_TOLERANCE_IN_SECONDS
             THEN [error |-> WebhookVerificationError("Message timestamp too old"),
                   value |-> Undefined]
             ELSE IF text.n > Now + WEBHOOK_TOLERANCE_IN_SECONDS
             THEN [error |-> WebhookVerificationError("Message timestamp too new"),
                   value |-> Undefined]
             ELSE IF \E i \in 1..Len(passedSignatures) :
                        /\ passedSignatures[i].version = "v1"
                        /\ passedSignatures[i].mac = Hmac(secret, msgId, text.n, payload)
             THEN JSON_parse(payload)
             ELSE [error |-> WebhookVerificationError("No matching signature found"),
                   value |-> Undefined]

\* signingSecret === undefined
IsFalsy_UndefinedOnly(secret) == secret = Absent

\* !signingSecret
IsFalsy(secret) == secret = Absent \/ secret = Some("")

\* verifySvixSignature whose catch block returns the parsed payload
verifySvixSignature_CatchReturns(secret, payload, headers) ==
    IF IsFalsy(secret)
    THEN [returned |-> FALSE, value |-> Undefined, error |-> MissingSigningSecret,
          caught |-> NoError, verified |-> FALSE]
    ELSE LET event == SvixVerify(secret[1], payload, headers)
         IN  IF event.error = NoError \/ JSON_parse(payload).error = NoError
             THEN [returned |-> TRUE, value |-> toCamelCase(JSON_parse(payload).value),
                   error |-> NoError, caught |-> event.error, verified |-> TRUE]
             ELSE [returned |-> FALSE, value |-> Undefined, error |-> InvalidWebhookSignature,
                   caught |-> event.error, verified |-> TRUE]

\* verifySvixSignature whose catch block rethrows what it caught
verifySvixSignature_Rethrows(secret, payload, headers) ==
    IF IsFalsy(secret)
    THEN [returned |-> FALSE, value |-> Undefined, error |-> MissingSigningSecret,
          caught |-> NoError, verified |-> FALSE]
    ELSE LET event == SvixVerify(secret[1], payload, headers)
         IN  IF event.error = NoError
             THEN [returned |-> TRUE, value |-> toCamelCase(event.value), error |-> NoError,
                   caught |-> NoError, verified |-> TRUE]
             ELSE [returned |-> FALSE, value |-> Undefined, error |-> event.error,
                   caught |-> event.error, verified |-> TRUE]

\* verifySvixSignature(payload, headers) with process.env's secret `secret`:
\* returned, the value returned, the error thrown, the error the catch block
\* caught, and whether svix.verify was called at all
verifySvixSignature(secret, payload, headers) ==
    IF IsFalsy(secret)
    THEN [returned |-> FALSE, value |-> Undefined, error |-> MissingSigningSecret,
          caught |-> NoError, verified |-> FALSE]
    ELSE LET event == SvixVerify(secret[1], payload, headers)
         IN  IF event.error = NoError
             THEN [returned |-> TRUE, value |-> toCamelCase(event.value), error |-> NoError,
                   caught |-> NoError, verified |-> TRUE]
             ELSE [returned |-> FALSE, value |-> Undefined, error |-> InvalidWebhookSignature,
                   caught |-> event.error, verified |-> TRUE]

----------------------------------------------------------------------------
(* Inputs explored *)

\* the secret the provider signs with
ProviderSecret == "whsec_A"

\* values of RECURRENTE_SVIX_SIGNING_SECRET in the environment
EnvValues == {Absent, Some(""), Some("whsec_A"), Some("whsec_B")}

\* the environment of the README's .env block: the provider's secret is in
\* SVIX_SIGNING_SECRET
ReadmeEnvironment ==
    [RECURRENTE_SVIX_SIGNING_SECRET |-> Absent, SVIX_SIGNING_SECRET |-> Some(ProviderSecret)]

\* the environments explored
Environments ==
    {[RECURRENTE_SVIX_SIGNING_SECRET |-> v, SVIX_SIGNING_SECRET |-> Absent] : v \in EnvValues}
    \cup {ReadmeEnvironment}

\* the signing secret read from the variable the README names
signingSecret_Readme(environment) == environment.SVIX_SIGNING_SECRET

\* const signingSecret = process.env.RECURRENTE_SVIX_SIGNING_SECRET
signingSecret(environment) == environment.RECURRENTE_SVIX_SIGNING_SECRET

\* svix-timestamp values at and just beyond both edges of the tolerance window
Timestamps == {Now - WEBHOOK_TOLERANCE_IN_SECONDS - 1, Now - WEBHOOK_TOLERANCE_IN_SECONDS,
               Now,
               Now + WEBHOOK_TOLERANCE_IN_SECONDS, Now + WEBHOOK_TOLERANCE_IN_SECONDS + 1}

\* the headers the provider sends with a message it signed
SignedHeaders(key, msgId, timestamp, payload) ==
    [id |-> Some(msgId),
     timestamp |-> Some(TimestampText(timestamp)),
     signature |-> Some(<<Versioned("v1", Hmac(key, msgId, timestamp, payload))>>)]

\* the provider's headers with one header dropped, garbled or replaced
TamperedHeaders(timestamp, payload) ==
    LET h == SignedHeaders(ProviderSecret, "msg_1", timestamp, payload)
        forged == Versioned("v1", Hmac("whsec_attacker", "msg_1", timestamp, payload))
    IN  {[h EXCEPT !.id = Absent],
         [h EXCEPT !.id = Some("msg_2")],
         [h EXCEPT !.timestamp = Absent],
         [h EXCEPT !.timestamp = Some(NotANumber)],
         [h EXCEPT !.timestamp = Some(TimestampText(timestamp + 1))],
         [h EXCEPT !.signature = Absent],
         [h EXCEPT !.signature = Some(<<forged>>)],
         [h EXCEPT !.signature = Some(<<Versioned("v2", h.signature[1][1].mac)>>)],
         [h EXCEPT !.signature = Some(<<forged>> \o h.signature[1])]}

Requests ==
    {[payload |-> p, headers |-> SignedHeaders(ProviderSecret, "msg_1", ts, p)] :
        p \in Payloads, ts \in Timestamps}
    \cup {[payload |-> p, headers |-> SignedHeaders(ProviderSecret, "msg_1", Now, p0)] :
        p \in Payloads, p0 \in Payloads}
    \cup UNION {{[payload |-> p, headers |-> h] : h \in TamperedHeaders(ts, p)} :
                p \in Payloads, ts \in Timestamps}

\* the requests explored together with registrations and dispatches
PipelineRequests ==
    {[payload |-> p, headers |-> SignedHeaders(ProviderSecret, "msg_1", Now, p)] :
        p \in Payloads}
    \cup {[payload |-> PayloadCancel,
           headers |-> SignedHeaders(ProviderSecret, "msg_1", ts, PayloadCancel)] :
        ts \in Timestamps}
    \cup {[payload |-> PayloadCancelMutated,
           headers |-> SignedHeaders(ProviderSecret, "msg_1", Now, PayloadCancel)]}
    \cup {[payload |-> PayloadCancel, headers |-> h] : h \in TamperedHeaders(Now, PayloadCancel)}

\* the events handleWebhookEvent is given: what verification can return, and
\* an event of each type of the taxonomy
Events ==
    {toCamelCase(JSON_parse(p).value) : p \in {q \in Payloads : JSON_parse(q).error = NoError}}
    \cup {Obj(<<Prop(eventTypeKey, Str(t))>>) : t \in EventTypes}

----------------------------------------------------------------------------
(* State machine *)

NoHeaders == [id |-> Absent, timestamp |-> Absent, signature |-> Absent]

NoVerification ==
    [returned |-> FALSE, value |-> Undefined, error |-> NoError,
     caught |-> NoError, verified |-> FALSE]

\* the route has not answered
NoResponse == [status |-> 0, body |-> ""]

\* res.status(200).send('Webhook procesado')
Processed == [status |-> 200, body |-> "Webhook procesado"]

\* res.status(400).send('Firma de webhook inválida')
Refused == [status |-> 400, body |-> "Firma de webhook inválida"]

Idle ==
    [op |-> "none", eventType |-> "", handler |-> NoHandler, event |-> Undefined,
     payload |-> "", headers |-> NoHeaders, secret |-> Absent,
     verification |-> NoVerification, calls |-> <<>>, fault |-> NoError, error |-> NoError,
     registry |-> InitialUserHandlers, history |-> [t \in EventTypes |-> <<>>],
     steps |-> <<>>, response |-> NoResponse]

\* no handleWebhookEvent call is in progress
NoDispatch ==
    [active |-> FALSE, event |-> Undefined, calls |-> <<>>,
     registry |-> InitialUserHandlers, history |-> [t \in EventTypes |-> <<>>]]

\* no value is being converted
NoConversion == [trace |-> <<>>, path |-> <<>>]

\* no transport outcome
NoOutcome == [resolved |-> FALSE, response |-> Undefined, error |-> Undefined]

\* no resource operation has been called
NoCall ==
    [op |-> "none", id |-> "", data |-> Undefined, outcome |-> NoOutcome,
     requests |-> <<>>, returned |-> FALSE, value |-> Undefined, thrown |-> Undefined]

Init ==
    /\ userHandlers = InitialUserHandlers
    /\ env \in Environments
    /\ registered = [t \in EventTypes |-> <<>>]
    /\ nRegistered = 0
    /\ last = Idle
    /\ running = NoDispatch
    /\ conv = NoConversion
    /\ api = NoCall

\* a call registerWebhookHandler(eventType, handler) by the application, while
\* no handler is running
Register(eventType, handler) ==
    /\ ~running.active
    /\ nRegistered < MaxRegistrations
    /\ userHandlers' = registerWebhookHandler(userHandlers, eventType, handler)
    /\ registered' = [registered EXCEPT ![eventType] = Append(@, handler)]
    /\ nRegistered' = nRegistered + 1
    /\ last' = [Idle EXCEPT !.op = "register", !.eventType = eventType, !.handler = handler]
    /\ UNCHANGED <<env, running, conv, api>>

\* a call registerWebhookHandler(eventType, handler) made by the handler that
\* is running; the handleWebhookEvent call in progress stays the latest call
RegisterInside(eventType, handler) ==
    /\ running.active
    /\ nRegistered < MaxRegistrations
    /\ userHandlers' = registerWebhookHandler(userHandlers, eventType, handler)
    /\ registered' = [registered EXCEPT ![eventType] = Append(@, handler)]
    /\ nRegistered' = nRegistered + 1
    /\ UNCHANGED <<env, last, running, conv, api>>

\* a call handleWebhookEvent(event), up to the call of the handler it selects;
\* without a handler it throws at once
Handle(event) ==
    /\ ~running.active
    /\ LET r == handleWebhookEvent(userHandlers, event)
       IN  IF r.calls = <<>>
           THEN /\ last' = [Idle EXCEPT !.op = "handle", !.event = event, !.error = r.error,
                                        !.registry = userHandlers, !.history = registered]
                /\ running' = NoDispatch
           ELSE /\ last' = [Idle EXCEPT !.op = "dispatching", !.event = event,
                                        !.registry = userHandlers, !.history = registered]
                /\ running' = [active |-> TRUE, event |-> event, calls |-> r.calls,
                               registry |-> userHandlers, history |-> registered]
    /\ UNCHANGED <<userHandlers, env, registered, nRegistered, conv, api>>

\* handleWebhookEvent that puts the default handler back when the handler it
\* called throws
HandlerEnds_ResetsOnFault(fault) ==
    /\ running.active
    /\ LET outcome == RunHandler(running.calls[1].handler, fault)
           eventType == StringOf(Get(running.event, eventTypeKey))
       IN  /\ last' = [Idle EXCEPT !.op = "handle", !.event = running.event,
                                   !.calls = running.calls, !.fault = outcome,
                                   !.error = Uncaught(outcome),
                                   !.registry = running.registry,
                                   !.history = running.history]
           /\ userHandlers' = IF outcome # NoError /\ eventType \in EventTypes
                              THEN [userHandlers EXCEPT ![eventType] = DefaultHandler(eventType)]
                              ELSE userHandlers
    /\ running' = NoDispatch
    /\ UNCHANGED <<env, registered, nRegistered, conv, api>>

\* handleWebhookEvent that reads the registry again when the handler has ended
\* and calls the entry it then finds, if it is another one
HandlerEnds_LooksUpAgain(fault) ==
    /\ running.active
    /\ LET outcome == RunHandler(running.calls[1].handler, fault)
           again == handleWebhookEvent(userHandlers, running.event).calls
       IN  last' = [Idle EXCEPT !.op = "handle", !.event = running.event,
                                !.calls = IF again = running.calls THEN running.calls
                                          ELSE running.calls \o again,
                                !.fault = outcome,
                                !.error = Uncaught(outcome),
                                !.registry = running.registry,
                                !.history = running.history]
    /\ running' = NoDispatch
    /\ UNCHANGED <<userHandlers, env, registered, nRegistered, conv, api>>

\* the handler called by the handleWebhookEvent call in progress returns, or
\* throws `fault`, and handleWebhookEvent ends with it
HandlerEnds(fault) ==
    /\ running.active
    /\ LET outcome == RunHandler(running.calls[1].handler, fault)
       IN  last' = [Idle EXCEPT !.op = "handle", !.event = running.event,
                                !.calls = running.calls, !.fault = outcome,
                                !.error = Uncaught(outcome),
                                !.registry = running.registry,
                                !.history = running.history]
    /\ running' = NoDispatch
    /\ UNCHANGED <<userHandlers, env, registered, nRegistered, conv, api>>

\* verifySvixSignature that hands the event it verified to its handler
Verify_Dispatches(payload, headers) ==
    /\ ~running.active
    /\ LET r == verifySvixSignature(signingSecret(env), payload, headers)
       IN  last' = [Idle EXCEPT !.op = "verify", !.payload = payload, !.headers = headers,
                                !.secret = signingSecret(env), !.verification = r,
                                !.event = r.value, !.error = r.error,
                                !.calls = IF r.returned
                                          THEN handleWebhookEvent(userHandlers, r.value).calls
                                          ELSE <<>>]
    /\ UNCHANGED <<userHandlers, env, registered, nRegistered, running, conv, api>>

\* a call verifySvixSignature(payload, headers)
Verify(payload, headers) ==
    /\ ~running.active
    /\ LET r == verifySvixSignature(signingSecret(env), payload, headers)
       IN  last' = [Idle EXCEPT !.op = "verify", !.payload = payload, !.headers = headers,
                                !.secret = signingSecret(env), !.verification = r,
                                !.event = r.value, !.error = r.error]
    /\ UNCHANGED <<userHandlers, env, registered, nRegistered, running, conv, api>>

\* the /webhook route with the two calls of its try block exchanged: the
\* parsed body is dispatched, then the signature is verified
Route_DispatchesFirst(payload, headers, fault) ==
    /\ ~running.active
    /\ LET r == verifySvixSignature(signingSecret(env), payload, headers)
           body == JSON_parse(payload)
           d == IF body.error = NoError
                THEN handleWebhookEvent(userHandlers, toCamelCase(body.value))
                ELSE [calls |-> <<>>, error |-> body.error]
           outcome == IF d.calls = <<>> THEN d.error
                      ELSE RunHandler(d.calls[1].handler, fault)
           request == [Idle EXCEPT !.op = "route", !.payload = payload, !.headers = headers,
                                   !.secret = signingSecret(env), !.verification = r,
                                   !.event = r.value, !.calls = d.calls,
                                   !.registry = userHandlers, !.history = registered]
       IN  IF outcome # NoError
           THEN last' = [request EXCEPT !.fault = IF d.calls = <<>> THEN NoError ELSE outcome,
                                        !.error = outcome,
                                        !.steps = <<"handleWebhookEvent", "catch">>,
                                        !.response = Refused]
           ELSE IF ~r.returned
           THEN last' = [request EXCEPT !.error = r.error,
                                        !.steps = <<"handleWebhookEvent", "verifySvixSignature",
                                                    "catch">>,
                                        !.response = Refused]
           ELSE last' = [request EXCEPT !.steps = <<"handleWebhookEvent", "verifySvixSignature",
                                                    "send">>,
                                        !.response = Processed]
    /\ UNCHANGED <<userHandlers, env, registered, nRegistered, running, conv, api>>

\* a request to the /webhook route of the documentation: the try block calls
\* verifySvixSignature, hands what it returns to handleWebhookEvent, whose
\* handler returns or throws `fault`, and answers 200; the catch block answers
\* 400 to whatever was thrown
Route(payload, headers, fault) ==
    /\ ~running.active
    /\ LET r == verifySvixSignature(signingSecret(env), payload, headers)
           d == handleWebhookEvent(userHandlers, r.value)
           outcome == IF d.calls = <<>> THEN d.error
                      ELSE RunHandler(d.calls[1].handler, fault)
           request == [Idle EXCEPT !.op = "route", !.payload = payload, !.headers = headers,
                                   !.secret = signingSecret(env), !.verification = r,
                                   !.event = r.value,
                                   !.registry = userHandlers, !.history = registered]
       IN  IF ~r.returned
           THEN last' = [request EXCEPT !.error = r.error,
                                        !.steps = <<"verifySvixSignature", "catch">>,
                                        !.response = Refused]
           ELSE IF outcome # NoError
           THEN last' = [request EXCEPT !.calls = d.calls,
                                        !.fault = IF d.calls = <<>> THEN NoError ELSE outcome,
                                        !.error = outcome,
                                        !.steps = <<"verifySvixSignature", "handleWebhookEvent",
                                                    "catch">>,
                                        !.response = Refused]
           ELSE last' = [request EXCEPT !.calls = d.calls,
                                        !.steps = <<"verifySvixSignature", "handleWebhookEvent",
                                                    "send">>,
                                        !.response = Processed]
    /\ UNCHANGED <<userHandlers, env, registered, nRegistered, running, conv, api>>

\* the process changes its environment: process.env is assigned to, or a
\* variable is deleted from it
SetEnv(environment) ==
    /\ ~running.active
    /\ environment # env
    /\ env' = environment
    /\ UNCHANGED <<userHandlers, registered, nRegistered, last, running, conv, api>>

DoRegister == \E t \in EventTypes, h \in UserHandlers : Register(t, h)

DoHandle == \E event \in Events : Handle(event)

DoHandlerEnds == \E fault \in HandlerFaults \cup {NoError} : HandlerEnds(fault)

DoVerify(requests) == \E request \in requests : Verify(request.payload, request.headers)

Next == DoRegister \/ DoHandle \/ DoHandlerEnds \/ DoVerify(PipelineRequests)

\* registrations, dispatches and verifications in any order
Spec == Init /\ [][Next]_vars

DoRegisterInside == \E t \in EventTypes, h \in UserHandlers : RegisterInside(t, h)

\* a process with the provider's secret configured whose handlers may
\* themselves register handlers
ReentrantNext == DoRegister \/ DoRegisterInside \/ DoHandle \/ DoHandlerEnds

ReentrantInit == Init /\ signingSecret(env) = Some(ProviderSecret)

ReentrantSpec == ReentrantInit /\ [][ReentrantNext]_vars

DoRoute ==
    \E request \in PipelineRequests, fault \in HandlerFaults \cup {NoError} :
        Route(request.payload, request.headers, fault)

\* the event types app.ts registers a handler for
ReadmeEventTypes == {"payment_intent.failed", "payment_intent.succeeded"}

DoRegisterReadme == \E t \in ReadmeEventTypes, h \in UserHandlers : Register(t, h)

\* an application that registers handlers and serves the /webhook route
RouteNext == DoRegisterReadme \/ DoRoute

RouteSpec == Init /\ [][RouteNext]_vars

DoSetEnv == \E environment \in Environments : SetEnv(environment)

\* a process started with the provider's secret configured, which verifies
\* requests and changes its environment
ConfigInit == Init /\ signingSecret(env) = Some(ProviderSecret)

ConfigNext == DoVerify(PipelineRequests) \/ DoSetEnv

ConfigSpec == ConfigInit /\ [][ConfigNext]_vars

----------------------------------------------------------------------------
(* Values given to the converters *)

\* characters of the keys explored: a lowercase letter, a capital, the
\* underscore, a digit and a capital outside [A-Z]
KeyChars == {"a", "A", "_", "1", "É"}

\* Object.keys lists array-index keys first, whatever their insertion order;
\* both converters leave such keys as they are, and they are not explored
IsArrayIndex(key) == \A i \in 1..Len(key) : IsDigit(key[i])

KeysUpTo(n) ==
    {key \in UNION {[1..len -> KeyChars] : len \in 1..n} : ~IsArrayIndex(key)}

\* the keys of one-property objects, with the two keys around __proto__
Keys == KeysUpTo(MaxKeyLen) \cup {ProtoKey, <<"_", "P", "r", "o", "t", "o", "_", "_">>}

\* the keys of the objects that have two properties or two levels
ShortKeys == KeysUpTo(MaxKeyLen - 1)

Leaves == {Str("v"), Num(7), Bool(TRUE), Null, Undefined}

ConverterInputs ==
    Leaves
    \cup {Obj(<<>>), Arr(<<>>)}
    \cup {Obj(<<Prop(k, v)>>) : k \in Keys, v \in Leaves}
    \cup {Obj(<<Prop(pair[1], Num(1)), Prop(pair[2], Num(2))>>) :
              pair \in {q \in ShortKeys \X ShortKeys : q[1] # q[2]}}
    \cup {Obj(<<Prop(k, Obj(<<Prop(k, Str("v"))>>))>>) : k \in ShortKeys}
    \cup {Arr(<<Num(7), Obj(<<Prop(k, Null)>>), Str("v"), Arr(<<>>)>>) : k \in Keys}
    \cup {Obj(<<Prop(k, Arr(<<Obj(<<Prop(k, Bool(TRUE))>>), Num(7)>>))>>) : k \in ShortKeys}

\* a value is handed to the converters
ConverterInit ==
    /\ userHandlers = InitialUserHandlers
    /\ env = ReadmeEnvironment
    /\ registered = [t \in EventTypes |-> <<>>]
    /\ nRegistered = 0
    /\ last = Idle
    /\ running = NoDispatch
    /\ conv \in {[trace |-> <<x>>, path |-> <<>>] : x \in ConverterInputs}
    /\ api = NoCall

\* a call toSnakeCase(value) on the latest value
ToSnakeCase ==
    /\ Len(conv.path) < MaxConversions
    /\ conv' = [trace |-> Append(conv.trace, toSnakeCase(conv.trace[Len(conv.trace)])),
                path |-> Append(conv.path, "toSnakeCase")]
    /\ UNCHANGED <<userHandlers, env, registered, nRegistered, last, running, api>>

\* a call toCamelCase(value) on the latest value
ToCamelCase ==
    /\ Len(conv.path) < MaxConversions
    /\ conv' = [trace |-> Append(conv.trace, toCamelCase(conv.trace[Len(conv.trace)])),
                path |-> Append(conv.path, "toCamelCase")]
    /\ UNCHANGED <<userHandlers, env, registered, nRegistered, last, running, api>>

ConverterNext == ToSnakeCase \/ ToCamelCase

ConverterSpec == ConverterInit /\ [][ConverterNext]_vars

----------------------------------------------------------------------------
(* Resource calls explored *)

\* request data of the caller, in camelCase
ProductRequests ==
    {Obj(<<Prop(nameKey, Str("Plan")),
           Prop(pricesAttributesKey,
                Arr(<<Obj(<<Prop(chargeTypeKey, Str("one_time")),
                            Prop(amountInCentsKey, Num(1000))>>)>>))>>),
     Obj(<<Prop(productKey,
                Obj(<<Prop(nameKey, Str("Plan")),
                      Prop(successUrlKey, Str("https://www.example.com/success"))>>))>>)}

\* a response body of the provider, in snake_case
ProductResponseData ==
    Obj(<<Prop(idKey, Str("prod_1")), Prop(statusKey, Str("active")),
          Prop(pricesKey,
               Arr(<<Obj(<<Prop(charge_type_key, Str("one_time")),
                           Prop(amount_in_cents_key, Num(1000))>>)>>))>>)

\* the per-field errors of a validation failure
FieldErrors == Obj(<<Prop(nameKey, Arr(<<Str("can't be blank")>>))>>)

\* bodies of failed responses: message and errors, one of them, an empty
\* message, a text body, an empty body
ErrorBodies ==
    {Obj(<<Prop(messageKey, Str("Validation failed")), Prop(errorsKey, FieldErrors)>>),
     Obj(<<Prop(messageKey, Str("Not found"))>>),
     Obj(<<Prop(errorsKey, FieldErrors)>>),
     Obj(<<Prop(messageKey, Str(""))>>),
     Str("Bad Gateway"),
     Str("")}

\* what the transport does with a request
TransportOutcomes ==
    {Resolves(Response(200, ProductResponseData)), Resolves(Response(204, Str("")))}
    \cup {Rejects(AxiosError("Request failed with status code 422", Response(422, body))) :
              body \in ErrorBodies}
    \cup {Rejects(AxiosError("Network Error", Undefined)),
          Rejects(AxiosError("", Undefined)),
          Rejects(Obj(<<Prop(messageKey, Str("Converting circular structure to JSON"))>>)),
          Rejects(Str("aborted"))}

\* product and subscription ids, and page numbers as the template literal writes them
Ids == {"1", "2"}

\* the observation of a call of operation op
Called(op, id, data, outcome, result) ==
    [op |-> op, id |-> id, data |-> data, outcome |-> outcome,
     requests |-> result.requests, returned |-> result.returned,
     value |-> result.value, thrown |-> result.thrown]

CreateProduct ==
    \E productData \in ProductRequests, outcome \in TransportOutcomes :
        /\ api' = Called("createProduct", "", productData, outcome,
                         createProduct(productData, outcome))
        /\ UNCHANGED <<userHandlers, env, registered, nRegistered, last, running, conv>>

GetProduct ==
    \E productId \in Ids, outcome \in TransportOutcomes :
        /\ api' = Called("getProduct", productId, Undefined, outcome,
                         getProduct(productId, outcome))
        /\ UNCHANGED <<userHandlers, env, registered, nRegistered, last, running, conv>>

GetAllProducts ==
    \E page \in Ids, outcome \in TransportOutcomes :
        /\ api' = Called("getAllProducts", page, Undefined, outcome,
                         getAllProducts(page, outcome))
        /\ UNCHANGED <<userHandlers, env, registered, nRegistered, last, running, conv>>

UpdateProduct ==
    \E productId \in Ids, productData \in ProductRequests, outcome \in TransportOutcomes :
        /\ api' = Called("updateProduct", productId, productData, outcome,
                         updateProduct(productId, productData, outcome))
        /\ UNCHANGED <<userHandlers, env, registered, nRegistered, last, running, conv>>

CreateSubscription ==
    \E productData \in ProductRequests, outcome \in TransportOutcomes :
        /\ api' = Called("createSubscription", "", productData, outcome,
                         createSubscription(productData, outcome))
        /\ UNCHANGED <<userHandlers, env, registered, nRegistered, last, running, conv>>

CancelSubscription ==
    \E subscriptionId \in Ids, outcome \in TransportOutcomes :
        /\ api' = Called("cancelSubscription", subscriptionId, Undefined, outcome,
                         cancelSubscription(subscriptionId, outcome))
        /\ UNCHANGED <<userHandlers, env, registered, nRegistered, last, running, conv>>

DeleteProduct ==
    \E productId \in Ids, outcome \in TransportOutcomes :
        /\ api' = Called("deleteProduct", productId, Undefined, outcome,
                         deleteProduct(productId, outcome))
        /\ UNCHANGED <<userHandlers, env, registered, nRegistered, last, running, conv>>

GetSubscription ==
    \E subscriptionId \in Ids, outcome \in TransportOutcomes :
        /\ api' = Called("getSubscription", subscriptionId, Undefined, outcome,
                         getSubscription(subscriptionId, outcome))
        /\ UNCHANGED <<userHandlers, env, registered, nRegistered, last, running, conv>>

\* the module is loaded, with the environment the README documents
ResourceInit == Init /\ env = ReadmeEnvironment

ResourceNext ==
    \/ CreateProduct \/ GetProduct \/ GetAllProducts \/ UpdateProduct
    \/ CreateSubscription \/ CancelSubscription \/ DeleteProduct \/ GetSubscription

ResourceSpec == ResourceInit /\ [][ResourceNext]_vars

VerifierNext == DoVerify(Requests)

\* verifications alone, over every request explored
VerifierSpec == Init /\ [][VerifierNext]_vars

----------------------------------------------------------------------------
(* Vocabulary of the properties *)

\* the eventType of the event of the latest call, as a property key
LastEventType == StringOf(Get(last.event, eventTypeKey))

\* the latest call was handleWebhookEvent on an event of type t
Handled(t) == last.op = "handle" /\ LastEventType = t

\* the latest call invoked exactly `handler`, once, with the event it was given
InvokedOnly(handler) == last.calls = <<[handler |-> handler, arg |-> last.event]>>

\* the latest call was verifySvixSignature with a non-empty secret configured
VerifiedWithSecret == last.op = "verify" /\ last.secret \notin {Absent, Some("")}

\* the three svix headers of the latest call are present and the timestamp is a number
HeadersWellFormed ==
    /\ last.headers.id # Absent
    /\ last.headers.signature # Absent
    /\ last.headers.timestamp # Absent
    /\ last.headers.timestamp[1].digits

\* the svix-signature header of the latest call carries a v1 signature computed
\* with `secret` over the svix-id and svix-timestamp headers and `payload`
SignedWith(secret, payload) ==
    /\ HeadersWellFormed
    /\ \E i \in 1..Len(last.headers.signature[1]) :
          last.headers.signature[1][i] =
              Versioned("v1", Hmac(secret, last.headers.id[1],
                                   last.headers.timestamp[1].n, payload))

\* the svix-timestamp header of the latest call is at most the tolerance away from the clock
WithinTolerance ==
    /\ last.headers.timestamp # Absent
    /\ last.headers.timestamp[1].digits
    /\ last.headers.timestamp[1].n - Now \in
          (0 - WEBHOOK_TOLERANCE_IN_SECONDS)..WEBHOOK_TOLERANCE_IN_SECONDS

\* the payload is a JSON object with an event_type member
DeclaresEventType(payload) ==
    /\ JSON_parse(payload).error = NoError
    /\ Get(JSON_parse(payload).value, event_type_key) # Undefined

----------------------------------------------------------------------------
(* C1 *)

\* C1: handleWebhookEvent on an event of type t, after registerWebhookHandler
\* calls for t, invokes the handler of the most recent of those calls and no
\* other (so none registered earlier for t); a registration, first or repeated,
\* raises no error and leaves its handler as the entry of its event type.
C1_LatestRegistrationDispatched ==
    /\ \A t \in EventTypes :
          (Handled(t) /\ last.history[t] # <<>>) =>
              InvokedOnly(last.history[t][Len(last.history[t])])
    /\ last.op = "register" =>
          /\ last.error = NoError
          /\ last.eventType \in DOMAIN userHandlers
          /\ userHandlers[last.eventType] = last.handler

\* h1 then h2 were registered for subscription.cancel and an event of that type
\* was dispatched to h2
C1_Witness ==
    /\ Handled("subscription.cancel")
    /\ last.history["subscription.cancel"] = <<UserHandler("h1"), UserHandler("h2")>>
    /\ InvokedOnly(UserHandler("h2"))

----------------------------------------------------------------------------
(* C2 *)

\* C2: handleWebhookEvent on an event whose eventType has no entry in the
\* registry fails with the error naming that eventType and invokes nothing.
C2_UnregisteredTypeFails ==
    (last.op = "handle" /\ LastEventType \notin DOMAIN userHandlers) =>
        /\ last.error = NoHandlerRegistered(Get(last.event, eventTypeKey))
        /\ last.calls = <<>>

----------------------------------------------------------------------------
(* C3 *)

\* C3: a request signed with the configured secret over its id, timestamp and
\* payload, with the timestamp within tolerance, verifies, and the event
\* returned has the eventType the payload declares as event_type.
C3_SignedRequestYieldsDeclaredType ==
    (/\ VerifiedWithSecret
     /\ SignedWith(last.secret[1], last.payload)
     /\ WithinTolerance
     /\ DeclaresEventType(last.payload)) =>
        /\ last.verification.returned
        /\ Get(last.event, eventTypeKey) = Get(JSON_parse(last.payload).value, event_type_key)

----------------------------------------------------------------------------
(* C4 *)

\* C4: when no signature in the headers was computed over the payload passed
\* (the payload differs from the signed one), verifySvixSignature fails and
\* returns no event.
C4_MutatedPayloadRejected ==
    (/\ last.op = "verify"
     /\ last.headers.signature # Absent
     /\ \A i \in 1..Len(last.headers.signature[1]) :
           last.headers.signature[1][i].mac.payload # last.payload) =>
        /\ ~last.verification.returned
        /\ last.event = Undefined
        /\ last.error # NoError

\* the provider signed PayloadCancel with the configured secret, the timestamp
\* is current, one byte of the payload was changed, and verification failed
C4_Witness ==
    /\ VerifiedWithSecret
    /\ SignedWith(last.secret[1], PayloadCancel)
    /\ WithinTolerance
    /\ last.payload = PayloadCancelMutated
    /\ ~last.verification.returned

----------------------------------------------------------------------------
(* C5 *)

\* C5: a timestamp header outside the tolerance window around the clock makes
\* verifySvixSignature fail, whatever the signature.
C5_StaleTimestampRejected ==
    (/\ last.op = "verify"
     /\ last.headers.timestamp # Absent
     /\ last.headers.timestamp[1].digits
     /\ ~WithinTolerance) =>
        /\ ~last.verification.returned
        /\ last.error # NoError

\* a correctly signed request one second past the tolerance was rejected
C5_Witness ==
    /\ VerifiedWithSecret
    /\ SignedWith(last.secret[1], last.payload)
    /\ last.headers.timestamp[1].n = Now - WEBHOOK_TOLERANCE_IN_SECONDS - 1
    /\ ~last.verification.returned

----------------------------------------------------------------------------
(* C6 *)

\* C6: with a secret configured, every failing verifySvixSignature call throws
\* the one error 'Invalid webhook signature', whatever made it fail.
C6_FailuresIndistinguishable ==
    (VerifiedWithSecret /\ ~last.verification.returned) =>
        last.error = InvalidWebhookSignature

\* a call that failed on a stale timestamp, not on the signature
C6_Witness ==
    /\ VerifiedWithSecret
    /\ SignedWith(last.secret[1], last.payload)
    /\ ~WithinTolerance
    /\ last.verification.caught = WebhookVerificationError("Message timestamp too old")
    /\ last.error = InvalidWebhookSignature

----------------------------------------------------------------------------
(* C7 *)

\* C7: with no secret, or the empty secret, configured, verifySvixSignature
\* throws 'Missing signing secret', another error than the verification
\* error, for every payload and headers, and svix.verify is not called.
C7_MissingSecretIsConfigurationError ==
    (last.op = "verify" /\ last.secret \in {Absent, Some("")}) =>
        /\ ~last.verification.returned
        /\ last.error = MissingSigningSecret
        /\ last.error # InvalidWebhookSignature
        /\ ~last.verification.verified

\* the empty secret is configured and the request carries the provider's headers
C7_Witness ==
    /\ last.op = "verify"
    /\ last.secret = Some("")
    /\ HeadersWellFormed
    /\ last.error = MissingSigningSecret

----------------------------------------------------------------------------
(* C8 *)

\* C8: when the signature check passes and the payload is not JSON,
\* verifySvixSignature fails with an error other than the verification error.
C8_ParseErrorDistinct ==
    (/\ VerifiedWithSecret
     /\ SignedWith(last.secret[1], last.payload)
     /\ WithinTolerance
     /\ JSON_parse(last.payload).error # NoError) =>
        /\ ~last.verification.returned
        /\ last.error # InvalidWebhookSignature

----------------------------------------------------------------------------
(* C9 *)

\* C9: every event verifySvixSignature returns has an eventType of the taxonomy.
C9_ReturnedEventInTaxonomy ==
    (last.op = "verify" /\ last.verification.returned) =>
        LastEventType \in EventTypes

----------------------------------------------------------------------------
(* C10 *)

\* C10 as stated: an event type never given to registerWebhookHandler is absent
\* from the registry.
C10_NeverRegisteredIsAbsent ==
    \A t \in EventTypes : registered[t] = <<>> => t \notin DOMAIN userHandlers

\* C10 as amended: an event type of the taxonomy never given to
\* registerWebhookHandler is mapped to the default handler installed at load,
\* and handleWebhookEvent on an event of that type invokes that default
\* handler and raises no error; the registry has no entry outside the taxonomy.
C10_NeverRegisteredIsDefault ==
    /\ DOMAIN userHandlers = EventTypes
    /\ \A t \in EventTypes :
          registered[t] = <<>> =>
              /\ userHandlers[t] = DefaultHandler(t)
              /\ Handled(t) => (InvokedOnly(DefaultHandler(t)) /\ last.error = NoError)

\* after registrations for other types, an event of a type never registered
\* was dispatched
C10_Witness ==
    /\ Handled("payment_intent.succeeded")
    /\ registered["payment_intent.succeeded"] = <<>>
    /\ nRegistered > 0
    /\ InvokedOnly(DefaultHandler("payment_intent.succeeded"))

----------------------------------------------------------------------------
(* C11 *)

\* C11: before any registerWebhookHandler call, handleWebhookEvent on an event
\* of any of the six event types invokes the default handler of that type,
\* and nothing else, and returns without an error.
C11_DefaultsBeforeRegistration ==
    \A t \in EventTypes :
        (nRegistered = 0 /\ Handled(t)) =>
            /\ InvokedOnly(DefaultHandler(t))
            /\ last.error = NoError

\* no handler was ever registered and a subscription.paused event was
\* dispatched to the default handler
C11_Witness ==
    /\ nRegistered = 0
    /\ Handled("subscription.paused")
    /\ InvokedOnly(DefaultHandler("subscription.paused"))
    /\ last.error = NoError

----------------------------------------------------------------------------
(* C12 *)

\* C12: when the handler invoked by handleWebhookEvent throws, handleWebhookEvent
\* throws that same value to its caller: not nothing, and not another error.
C12_HandlerFaultPropagates ==
    (last.op = "handle" /\ last.calls # <<>> /\ last.fault # NoError) =>
        last.error = last.fault

\* the application handler registered for subscription.create threw a
\* TypeError, and handleWebhookEvent threw it
C12_Witness ==
    /\ Handled("subscription.create")
    /\ InvokedOnly(UserHandler("h1"))
    /\ last.fault = TypeError(<<"customer is undefined">>)
    /\ last.error = last.fault

----------------------------------------------------------------------------
(* C13 *)

\* C13: handleWebhookEvent on an event whose type has a registry entry when it
\* is called invokes that entry exactly once with the event it was given,
\* invokes no other handler, and has returned only after the handler's
\* invocation ended.
C13_OneSynchronousCall ==
    /\ (last.op = "handle" /\ LastEventType \in DOMAIN last.registry) =>
          /\ last.calls = <<[handler |-> last.registry[LastEventType], arg |-> last.event]>>
          /\ ~running.active
    /\ running.active =>
          /\ last.op = "dispatching"
          /\ running.event = last.event
          /\ Len(running.calls) = 1

\* the subscription.cancel event of the example, with its customerId, was
\* dispatched to the application handler registered for that type, which returned
C13_Witness ==
    /\ Handled("subscription.cancel")
    /\ last.event = Obj(<<Prop(eventTypeKey, Str("subscription.cancel")),
                          Prop(customerIdKey, Str("cus_1"))>>)
    /\ userHandlers["subscription.cancel"] = UserHandler("h2")
    /\ InvokedOnly(UserHandler("h2"))
    /\ last.error = NoError

----------------------------------------------------------------------------
(* C14 *)

\* C14: a call of verifySvixSignature, whatever its outcome, leaves the handler
\* registry as it was and invokes no handler.
C14_VerifyTouchesNoHandler ==
    [][last'.op = "verify" =>
          /\ userHandlers' = userHandlers
          /\ registered' = registered
          /\ last'.calls = <<>>
          /\ running' = NoDispatch]_vars

\* a request was verified and its event returned while an application handler
\* was registered for the event's type: the handler was not invoked
C14_Witness ==
    /\ last.op = "verify"
    /\ last.verification.returned
    /\ StringOf(Get(last.event, eventTypeKey)) = "subscription.cancel"
    /\ userHandlers["subscription.cancel"] = UserHandler("h1")
    /\ last.calls = <<>>

----------------------------------------------------------------------------
(* C15 *)

\* C15 as stated: every verification call of a process uses the same secret
\* value, whatever happens to the environment between two calls.
C15_SecretFixedAtStart ==
    [][(last.op = "verify" /\ last'.op = "verify") => last'.secret = last.secret]_vars

\* C15: every verification call uses the value RECURRENTE_SVIX_SIGNING_SECRET
\* holds in the environment at the time of that call, and its outcome is the
\* one that value gives.
C15_SecretReadAtEachCall ==
    [][(last'.op = "verify" /\ env' = env) =>
          /\ last'.secret = env.RECURRENTE_SVIX_SIGNING_SECRET
          /\ last'.verification =
                 verifySvixSignature(env.RECURRENTE_SVIX_SIGNING_SECRET,
                                     last'.payload, last'.headers)]_vars

\* the process started with the provider's secret, the variable was then
\* removed, and a correctly signed request was refused for lack of a secret
C15_Witness ==
    /\ last.op = "verify"
    /\ env.RECURRENTE_SVIX_SIGNING_SECRET = Absent
    /\ last.secret = Absent
    /\ HeadersWellFormed /\ SignedWith(ProviderSecret, last.payload) /\ WithinTolerance
    /\ last.error = MissingSigningSecret

----------------------------------------------------------------------------
(* C16 *)

\* C16: in the environment the README documents, with the provider's secret in
\* SVIX_SIGNING_SECRET, verifySvixSignature uses that value as its signing
\* secret and accepts a request correctly signed with it.
C16_ReadmeConfigurationAccepted ==
    (/\ last.op = "verify"
     /\ env = ReadmeEnvironment
     /\ SignedWith(ProviderSecret, last.payload)
     /\ WithinTolerance
     /\ DeclaresEventType(last.payload)) =>
        /\ last.secret = env.SVIX_SIGNING_SECRET
        /\ last.verification.returned

----------------------------------------------------------------------------
(* Vocabulary of the converter claims *)

\* the keys of every mapping inside a value
RECURSIVE KeysOf(_)
KeysOf(value) ==
    IF value.t = "obj"
    THEN {value.e[i].k : i \in 1..Len(value.e)}
         \cup UNION {KeysOf(value.e[i].v) : i \in 1..Len(value.e)}
    ELSE IF value.t = "arr" THEN UNION {KeysOf(value.e[i]) : i \in 1..Len(value.e)}
    ELSE {}

\* camelCase: a lowercase letter, then letters of [a-zA-Z] and digits
IsCamelCase(key) ==
    /\ key # <<>>
    /\ IsLower(key[1])
    /\ \A i \in 1..Len(key) : IsLower(key[i]) \/ IsUpper(key[i]) \/ IsDigit(key[i])

\* snake_case: a lowercase letter, then letters of [a-z], digits and underscores
IsSnakeCase(key) ==
    /\ key # <<>>
    /\ IsLower(key[1])
    /\ \A i \in 1..Len(key) : IsLower(key[i]) \/ IsDigit(key[i]) \/ key[i] = "_"

\* the value the converters were given, and the one the n-th call returned
Input == conv.trace[1]

Output(n) == conv.trace[n + 1]

\* two values have the same shape: mappings of as many entries, sequences of as
\* many elements, in the same order, and the same leaves
RECURSIVE SameShape(_, _)
SameShape(x, y) ==
    IF x.t = "obj"
    THEN /\ y.t = "obj"
         /\ Len(y.e) = Len(x.e)
         /\ \A i \in 1..Len(x.e) : SameShape(x.e[i].v, y.e[i].v)
    ELSE IF x.t = "arr"
    THEN /\ y.t = "arr"
         /\ Len(y.e) = Len(x.e)
         /\ \A i \in 1..Len(x.e) : SameShape(x.e[i], y.e[i])
    ELSE y.t = x.t /\ y = x

----------------------------------------------------------------------------
(* C17 *)

\* C17: a value whose keys all follow camelCase is returned by toSnakeCase and
\* then toCamelCase equal to itself; a value whose keys all follow snake_case is
\* returned by toCamelCase and then toSnakeCase equal to itself.
C17_RoundTrip ==
    /\ (conv.path = <<"toSnakeCase", "toCamelCase">>
        /\ \A key \in KeysOf(Input) : IsCamelCase(key)) => Output(2) = Input
    /\ (conv.path = <<"toCamelCase", "toSnakeCase">>
        /\ \A key \in KeysOf(Input) : IsSnakeCase(key)) => Output(2) = Input

\* {aA: {aA: 'v'}} went to {a_a: {a_a: 'v'}} and back
C17_Witness ==
    /\ conv.path = <<"toSnakeCase", "toCamelCase">>
    /\ Input = Obj(<<Prop(<<"a", "A">>, Obj(<<Prop(<<"a", "A">>, Str("v"))>>))>>)
    /\ Output(1) = Obj(<<Prop(<<"a", "_", "a">>, Obj(<<Prop(<<"a", "_", "a">>, Str("v"))>>))>>)
    /\ Output(2) = Input

----------------------------------------------------------------------------
(* C18 *)

\* C18: whatever value it is given, each converter returns a value of the same
\* shape: every mapping keeps its number of entries, every sequence its length
\* and the order of its elements, and every leaf is unchanged.
C18_ShapePreserved ==
    \A n \in 1..Len(conv.path) : SameShape(conv.trace[n], Output(n))

----------------------------------------------------------------------------
(* C19 *)

\* C19: each converter applied to its own result returns that result:
\* toSnakeCase(toSnakeCase(x)) = toSnakeCase(x) and
\* toCamelCase(toCamelCase(x)) = toCamelCase(x), for every value x; a value
\* whose keys are already in the target convention is returned equal to itself.
C19_Idempotent ==
    /\ (Len(conv.path) = 2 /\ conv.path[1] = conv.path[2]) => Output(2) = Output(1)
    /\ (Len(conv.path) >= 1 /\ conv.path[1] = "toSnakeCase"
        /\ \A key \in KeysOf(Input) : IsSnakeCase(key)) => Output(1) = Input
    /\ (Len(conv.path) >= 1 /\ conv.path[1] = "toCamelCase"
        /\ \A key \in KeysOf(Input) : IsCamelCase(key)) => Output(1) = Input

\* {_a: {_a: 'v'}} went to {A: {A: 'v'}}, which toCamelCase returned as it was
C19_Witness ==
    /\ conv.path = <<"toCamelCase", "toCamelCase">>
    /\ Input = Obj(<<Prop(<<"_", "a">>, Obj(<<Prop(<<"_", "a">>, Str("v"))>>))>>)
    /\ Output(1) = Obj(<<Prop(<<"A">>, Obj(<<Prop(<<"A">>, Str("v"))>>))>>)
    /\ Output(2) = Output(1)

----------------------------------------------------------------------------
(* C20 *)

\* the latest resource operation failed: the transport rejected its request
Failed == api.op # "none" /\ ~api.outcome.resolved

\* the rejection is an error of the transport
TransportError == isAxiosError(api.outcome.error)

\* the body of the response the transport error carries, undefined without one
ResponseData == Get(Get(api.outcome.error, responseKey), dataKey)

\* C20: a resource operation that fails throws a normalized error object, with
\* status 'error' and a non-empty message: the provider's message and per-field
\* errors when the response carries data, the transport error's message when it
\* does not, 'An unknown error occurred' when the fault is not a transport
\* error; it never throws the transport error itself.
C20_FailuresNormalized ==
    Failed =>
        /\ ~api.returned
        /\ api.thrown # api.outcome.error
        /\ api.thrown.t = "obj"
        /\ Get(api.thrown, statusKey) = Str("error")
        /\ Get(api.thrown, messageKey).t = "str"
        /\ Get(api.thrown, messageKey).e # ""
        /\ (TransportError /\ Truthy(ResponseData)) =>
              /\ Truthy(Get(ResponseData, messageKey)) =>
                     Get(api.thrown, messageKey) = Get(ResponseData, messageKey)
              /\ Truthy(Get(ResponseData, errorsKey)) =>
                     Get(api.thrown, errorsKey) = Get(ResponseData, errorsKey)
        /\ (TransportError /\ ~Truthy(ResponseData)
            /\ Truthy(Get(api.outcome.error, messageKey))) =>
              Get(api.thrown, messageKey) = Get(api.outcome.error, messageKey)
        /\ ~TransportError =>
              Get(api.thrown, messageKey) = Str("An unknown error occurred")

\* updateProduct was refused with a validation failure and threw the provider's
\* message and per-field errors
C20_Witness ==
    /\ api.op = "updateProduct"
    /\ Failed
    /\ ResponseData = Obj(<<Prop(messageKey, Str("Validation failed")),
                            Prop(errorsKey, FieldErrors)>>)
    /\ api.thrown = Obj(<<Prop(statusKey, Str("error")),
                          Prop(messageKey, Str("Validation failed")),
                          Prop(errorsKey, FieldErrors)>>)

----------------------------------------------------------------------------
(* C21 *)

\* the method and address each operation sends its request to
Endpoint(op, id) ==
    CASE op = "createProduct" -> [method |-> "post", url |-> <<"/products/">>]
      [] op = "getProduct" -> [method |-> "get", url |-> <<"/products/", id>>]
      [] op = "getAllProducts" -> [method |-> "get", url |-> <<"/products?page=", id>>]
      [] op = "updateProduct" -> [method |-> "patch", url |-> <<"/products/", id>>]
      [] op = "createSubscription" -> [method |-> "post", url |-> <<"/products/">>]
      [] op = "cancelSubscription" -> [method |-> "delete", url |-> <<"/subscriptions/", id>>]
      [] op = "deleteProduct" -> [method |-> "delete", url |-> <<"/products/", id>>]
      [] OTHER -> [method |-> "get", url |-> <<"/subscriptions/", id>>]

\* C21: a call of a resource operation issues exactly one request to the
\* transport client, its own, whether the transport resolves or rejects it; what
\* the call returns or throws comes from that request's outcome.
C21_OneRequestPerCall ==
    api.op # "none" =>
        /\ Len(api.requests) = 1
        /\ api.requests[1].method = Endpoint(api.op, api.id).method
        /\ api.requests[1].url = Endpoint(api.op, api.id).url
        /\ api.returned = api.outcome.resolved
        /\ api.returned => api.thrown = Undefined
        /\ ~api.returned => api.value = Undefined

\* cancelSubscription('2') met a network error after one DELETE /subscriptions/2
C21_Witness ==
    /\ api.op = "cancelSubscription"
    /\ api.outcome = Rejects(AxiosError("Network Error", Undefined))
    /\ api.requests = <<[method |-> "delete", url |-> <<"/subscriptions/", "2">>,
                         body |-> Undefined]>>
    /\ ~api.returned

----------------------------------------------------------------------------
(* C22 *)

SendsBody == {"createProduct", "updateProduct", "createSubscription"}

ReturnsData == {"createProduct", "getProduct", "getAllProducts", "updateProduct",
                "createSubscription", "getSubscription"}

\* C22: the body createProduct, updateProduct and createSubscription hand to the
\* transport is toSnakeCase of the caller's data, so none of its keys holds an
\* uppercase letter; the value the six data-returning operations return is
\* toCamelCase of the response data, so a property such as amountInCents is
\* there in camelCase.
C22_ConverterIsBoundary ==
    /\ api.op \in SendsBody =>
          /\ api.requests[1].body = toSnakeCase(api.data)
          /\ \A key \in KeysOf(api.requests[1].body) :
                 \A i \in 1..Len(key) : ~IsUpper(key[i])
    /\ (api.op \in ReturnsData /\ api.returned) =>
          /\ api.value = toCamelCase(Get(api.outcome.response, dataKey))
          /\ \A key \in KeysOf(api.value) :
                 \A i \in 1..(Len(key) - 1) : ~(key[i] = "_" /\ IsLower(key[i + 1]))

\* updateProduct sent prices_attributes / amount_in_cents and returned a product
\* whose price has amountInCents and chargeType
C22_Witness ==
    /\ api.op = "updateProduct"
    /\ api.returned
    /\ amountInCentsKey \in KeysOf(api.data)
    /\ amount_in_cents_key \in KeysOf(api.requests[1].body)
    /\ amountInCentsKey \notin KeysOf(api.requests[1].body)
    /\ Get(Get(api.value, pricesKey).e[1], amountInCentsKey) = Num(1000)
    /\ Get(Get(api.value, pricesKey).e[1], chargeTypeKey) = Str("one_time")

----------------------------------------------------------------------------
(* C23 *)

\* C23: when several registerWebhookHandler calls for one event type are made by
\* different request handlers, in whichever order they run, the registry then
\* holds for that type exactly one of the handlers given, the one of the call
\* that ran last (not the default, not another value), and a handleWebhookEvent
\* call made after them invokes that handler.
C23_LastWriteWins ==
    \A t \in EventTypes :
        Len(registered[t]) >= 2 =>
            /\ t \in DOMAIN userHandlers
            /\ userHandlers[t] \in {registered[t][i] : i \in 1..Len(registered[t])}
            /\ userHandlers[t] = registered[t][Len(registered[t])]
            /\ (Handled(t) /\ last.history[t] = registered[t]) =>
                   InvokedOnly(registered[t][Len(registered[t])])

\* h2 then h1 were registered for payment_intent.failed, the reverse of the
\* order of C1's witness, and an event of that type was dispatched to h1
C23_Witness ==
    /\ registered["payment_intent.failed"] = <<UserHandler("h2"), UserHandler("h1")>>
    /\ userHandlers["payment_intent.failed"] = UserHandler("h1")
    /\ Handled("payment_intent.failed")
    /\ last.history = registered
    /\ InvokedOnly(UserHandler("h1"))

----------------------------------------------------------------------------
(* C24 *)

\* C24: a handleWebhookEvent call leaves the registry as it is, whether it
\* returns, throws the no-handler error or throws what the handler threw; and
\* each call invokes the handler registered for the type of its own event.
C24_DispatchOnlyReads ==
    [][/\ (running' # running \/ last'.op = "handle") =>
              /\ userHandlers' = userHandlers
              /\ registered' = registered
       /\ (running.active /\ ~running'.active) =>
              last'.calls =
                  <<[handler |-> Lookup(running.registry,
                                        StringOf(Get(running.event, eventTypeKey))),
                     arg |-> running.event]>>]_vars

\* after a registration, a dispatch ended with the fault its handler threw and
\* the registry is the one the dispatch found
C24_Witness ==
    /\ last.op = "handle"
    /\ last.fault \in HandlerFaults
    /\ nRegistered > 0
    /\ userHandlers = last.registry
    /\ userHandlers[LastEventType] = UserHandler("h1")

----------------------------------------------------------------------------
(* C25 *)

\* a capital letter, of [A-Z] or of another script
IsUppercaseLetter(c) == IsUpper(c) \/ c = "É"

\* the key with an underscore put before each of its capital letters, then
\* lowercased as a whole
RECURSIVE UnderscoredLowercased(_)
UnderscoredLowercased(key) ==
    IF key = <<>> THEN <<>>
    ELSE (IF IsUppercaseLetter(key[1]) THEN <<"_">> ELSE <<>>)
         \o <<ToLower(key[1])>> \o UnderscoredLowercased(Tail(key))

\* y is x with the keys of every mapping, at every level, renamed by
\* UnderscoredLowercased: each key of x has its renamed key in y, and each key
\* of y is the renamed key of a key of x whose value corresponds
RECURSIVE SnakeRenamed(_, _)
SnakeRenamed(x, y) ==
    IF x.t = "obj"
    THEN /\ y.t = "obj"
         /\ \A i \in 1..Len(x.e) : \E j \in 1..Len(y.e) :
                y.e[j].k = UnderscoredLowercased(x.e[i].k)
         /\ \A j \in 1..Len(y.e) : \E i \in 1..Len(x.e) :
                /\ y.e[j].k = UnderscoredLowercased(x.e[i].k)
                /\ SnakeRenamed(x.e[i].v, y.e[j].v)
    ELSE IF x.t = "arr"
    THEN /\ y.t = "arr"
         /\ Len(y.e) = Len(x.e)
         /\ \A i \in 1..Len(x.e) : SnakeRenamed(x.e[i], y.e[i])
    ELSE y = x

\* C25: toSnakeCase renames every key of every mapping, at every level and
\* inside sequences, to the key with an underscore before each capital letter,
\* lowercased; no key of the result holds a capital letter.
C25_SnakeKeyRule ==
    \A n \in 1..Len(conv.path) :
        conv.path[n] = "toSnakeCase" =>
            /\ SnakeRenamed(conv.trace[n], Output(n))
            /\ \A key \in KeysOf(Output(n)) :
                   \A i \in 1..Len(key) : ~IsUppercaseLetter(key[i])

----------------------------------------------------------------------------
(* C26 *)

\* the letters a-z, and the lowercase letters of every script explored
LettersAToZ == {Lowers[i] : i \in 1..Len(Lowers)}

LowercaseLetters == LettersAToZ \cup {"é"}

\* the positions of the underscores of a key that one of the letters `small`
\* follows
Marked(key, small) ==
    {i \in 1..Len(key) : key[i] = "_" /\ i < Len(key) /\ key[i + 1] \in small}

\* the capital of a small letter
Capital(c) == IF c = "é" THEN "É" ELSE ToUpper(c)

\* the key without its marked underscores and with the letter after each of
\* them as a capital
Concatenated(key, small) ==
    LET Kept(i) == i \notin Marked(key, small)
        positions == SelectSeq([i \in 1..Len(key) |-> i], Kept)
    IN  [j \in 1..Len(positions) |->
            IF positions[j] - 1 \in Marked(key, small)
            THEN Capital(key[positions[j]])
            ELSE key[positions[j]]]

\* y is x with the keys of every mapping, at every level, renamed by
\* Concatenated
RECURSIVE CamelRenamed(_, _, _)
CamelRenamed(x, y, small) ==
    IF x.t = "obj"
    THEN /\ y.t = "obj"
         /\ \A i \in 1..Len(x.e) : \E j \in 1..Len(y.e) :
                y.e[j].k = Concatenated(x.e[i].k, small)
         /\ \A j \in 1..Len(y.e) : \E i \in 1..Len(x.e) :
                /\ y.e[j].k = Concatenated(x.e[i].k, small)
                /\ CamelRenamed(x.e[i].v, y.e[j].v, small)
    ELSE IF x.t = "arr"
    THEN /\ y.t = "arr"
         /\ Len(y.e) = Len(x.e)
         /\ \A i \in 1..Len(x.e) : CamelRenamed(x.e[i], y.e[i], small)
    ELSE y = x

\* C26, as stated: toCamelCase renames every key of every mapping, at every
\* level and inside sequences, by replacing each underscore that a lowercase
\* letter follows with that letter as a capital, any letter counting; the other
\* underscores are kept, and no key of the result has an underscore followed by
\* a lowercase letter.
C26_AnyLowercaseLetter ==
    \A n \in 1..Len(conv.path) :
        conv.path[n] = "toCamelCase" =>
            /\ CamelRenamed(conv.trace[n], Output(n), LowercaseLetters)
            /\ \A key \in KeysOf(Output(n)) : Marked(key, LowercaseLetters) = {}

\* C26, amended: toCamelCase renames every key of every mapping, at every level
\* and inside sequences, by replacing each underscore that a letter of a-z
\* follows with that letter as a capital; every other underscore is kept, one
\* before a lowercase letter outside a-z included, and no key of the result has
\* an underscore followed by a letter of a-z.
C26_CamelKeyRule ==
    \A n \in 1..Len(conv.path) :
        conv.path[n] = "toCamelCase" =>
            /\ CamelRenamed(conv.trace[n], Output(n), LettersAToZ)
            /\ \A key \in KeysOf(Output(n)) : Marked(key, LettersAToZ) = {}

\* [7, {_a_: null}, 'v', []] was returned as [7, {A_: null}, 'v', []]: the
\* underscore before the letter is gone, the one at the end is kept
C26_Witness ==
    /\ conv.path = <<"toCamelCase">>
    /\ Input = Arr(<<Num(7), Obj(<<Prop(<<"_", "a", "_">>, Null)>>), Str("v"), Arr(<<>>)>>)
    /\ Output(1) = Arr(<<Num(7), Obj(<<Prop(<<"A", "_">>, Null)>>), Str("v"), Arr(<<>>)>>)

----------------------------------------------------------------------------
(* C27 *)

\* the latest call was a request to the /webhook route
Routed == last.op = "route"

\* the position of a step among the steps of the latest request, 0 if absent
StepAt(step) ==
    IF \E i \in 1..Len(last.steps) : last.steps[i] = step
    THEN CHOOSE i \in 1..Len(last.steps) : last.steps[i] = step
    ELSE 0

\* C27: in the documented route, which calls verifySvixSignature and then
\* handleWebhookEvent on its result inside one try block, a handler is invoked
\* only after verification has returned an event for that request, and with
\* that event; when verification throws, whatever the reason, no handler is
\* invoked and the request is answered with the error response.
C27_VerifiedBeforeDispatch ==
    Routed =>
        /\ last.calls # <<>> =>
              /\ last.verification.returned
              /\ StepAt("verifySvixSignature") > 0
              /\ StepAt("verifySvixSignature") < StepAt("handleWebhookEvent")
              /\ last.calls = <<[handler |-> Lookup(last.registry,
                                                    StringOf(Get(last.verification.value,
                                                                 eventTypeKey))),
                                 arg |-> last.verification.value]>>
        /\ ~last.verification.returned =>
              /\ last.calls = <<>>
              /\ StepAt("handleWebhookEvent") = 0
              /\ last.response = Refused
        /\ last.response = Processed =>
              last.verification.returned /\ Len(last.calls) = 1 /\ last.error = NoError

\* a correctly signed payment_intent.succeeded request was verified, its event
\* given to the registered h1, and answered 200
C27_Witness ==
    /\ Routed
    /\ last.payload = PayloadSucceeded
    /\ last.verification.returned
    /\ last.steps = <<"verifySvixSignature", "handleWebhookEvent", "send">>
    /\ last.calls = <<[handler |-> UserHandler("h1"), arg |-> last.verification.value]>>
    /\ last.response = Processed

----------------------------------------------------------------------------
(* C28 *)

\* C28: in every reachable state each of the six event types has exactly one
\* handler in the registry, a function, so that handleWebhookEvent on an event
\* of one of the six types never throws the no-handler error.
C28_SixTypesAlwaysHandled ==
    /\ EventTypes \subseteq DOMAIN userHandlers
    /\ \A t \in EventTypes :
          /\ userHandlers[t].kind \in {"default", "user"}
          /\ Handled(t) =>
                /\ last.error # NoHandlerRegistered(Str(t))
                /\ Len(last.calls) = 1

\* after as many registrations as the bound allows, an event of a type that
\* was never registered found its default handler
C28_Witness ==
    /\ nRegistered = MaxRegistrations
    /\ Handled("subscription.past_due")
    /\ registered["subscription.past_due"] = <<>>
    /\ Len(last.calls) = 1
    /\ last.error = NoError

----------------------------------------------------------------------------
(* C29 *)

\* C29: a call registerWebhookHandler(t, h) changes the registry entry of t and
\* no other: every other event type has the same handler after the call as
\* before it.
C29_RegisterChangesOneEntry ==
    [][nRegistered' # nRegistered =>
          \E t \in EventTypes :
              /\ registered'[t] # registered[t]
              /\ userHandlers'[t] = registered'[t][Len(registered'[t])]
              /\ DOMAIN userHandlers' = DOMAIN userHandlers
              /\ \A u \in DOMAIN userHandlers \ {t} : userHandlers'[u] = userHandlers[u]]_vars

\* h1 was registered for subscription.create while subscription.paused kept the
\* h2 registered before and the other four types their defaults
C29_Witness ==
    /\ last.op = "register"
    /\ last.eventType = "subscription.create"
    /\ userHandlers["subscription.create"] = UserHandler("h1")
    /\ userHandlers["subscription.paused"] = UserHandler("h2")
    /\ \A t \in EventTypes \ {"subscription.create", "subscription.paused"} :
           userHandlers[t] = DefaultHandler(t)

----------------------------------------------------------------------------
(* C30 *)

\* C30: handleWebhookEvent selects its handler once, when it looks it up: a
\* registerWebhookHandler call made while that handler runs leaves the dispatch
\* in progress as it is, the dispatch invokes no second handler, and a
\* handleWebhookEvent call made afterwards invokes the newly registered handler.
C30_HandlerSelectedAtLookup ==
    [][/\ (running.active /\ running'.active) => running' = running
       /\ (running.active /\ ~running'.active) =>
              /\ last'.calls = running.calls
              /\ Len(last'.calls) = 1
       /\ (~running.active /\ running'.active) =>
              running'.calls[1].handler =
                  Lookup(userHandlers, StringOf(Get(running'.event, eventTypeKey)))]_vars

\* h1, running for a subscription.cancel event, registered h2 for that type:
\* the dispatch ended having invoked h1 alone
C30_Witness ==
    /\ Handled("subscription.cancel")
    /\ last.registry["subscription.cancel"] = UserHandler("h1")
    /\ userHandlers["subscription.cancel"] = UserHandler("h2")
    /\ InvokedOnly(UserHandler("h1"))

====
